---------------------------- MODULE Spec2Model ----------------------------
(***************************************************************************)
(* Model of the GitHub push webhook of devconnectbot:                      *)
(*   - verifyWebhook (route.js) and verifyWebhook (services/github-webhook)*)
(*   - handlePushEvent (services/github-webhook)                           *)
(*   - the POST handler of app/api/webhook/github/route.js                 *)
(*                                                                         *)
(* A JavaScript string is a sequence of chunks; a chunk is a run of        *)
(* characters that the code never looks inside ("refs/heads/", "a", the    *)
(* newline "\n", ...).  A JavaScript value is a record tagged with its     *)
(* type in field t.                                                        *)
(***************************************************************************)
EXTENDS Naturals, Sequences, FiniteSets, TLC

VARIABLES
    secret,      \* process.env.GITHUB_WEBHOOK_SECRET / GITHUB_WEBHOOK_SECRET
    pc,          \* position of the running operation
    signature,   \* x-hub-signature-256 header of the request (or argument)
    event,       \* x-github-event header of the request
    rawBody,     \* the request body as text
    payload,     \* the parsed payload handed to handlePushEvent
    message,     \* the text handlePushEvent returned
    parsed,      \* POST: JSON.parse has been reached for this request
    handled,     \* POST: handlePushEvent has been reached for this request
    sent,        \* POST: the texts handed to sendPushAlertAction, in order
    response,    \* POST: the Response returned (status 0: none yet)
    sendResult,  \* POST: what sendPushAlertAction answered
    escaped,     \* an exception left the operation
    routeResult, \* result of verifyWebhook of route.js
    svcResult    \* result of verifyWebhook of services/github-webhook

vars == <<secret, pc, signature, event, rawBody, payload, message, parsed,
          handled, sent, response, sendResult, escaped, routeResult,
          svcResult>>

-----------------------------------------------------------------------------
(* Bounds of the model *)

MaxCommits == 3
MaxRefLen == 3
MaxBodyLen == 2

-----------------------------------------------------------------------------
(* JavaScript values *)

Undef == [t |-> "undefined", s |-> <<>>]
Null == [t |-> "null", s |-> <<>>]
Num == [t |-> "number", s |-> <<"5">>]
Str(s) == [t |-> "string", s |-> s]

\* ToBoolean of undefined, null, a string or the (non-zero) number
Truthy(v) == \/ v.t = "number"
             \/ v.t = "string" /\ v.s # <<>>

\* a || b
OrElse(a, b) == IF Truthy(a) THEN a ELSE b

\* `${v}` : the text of v in a template literal
ToText(v) == CASE v.t = "undefined" -> <<"undefined">>
               [] v.t = "null" -> <<"null">>
               [] OTHER -> v.s

\* Strings of at most n chunks over an alphabet
StringsUpTo(alphabet, n) == UNION {[1..k -> alphabet] : k \in 0..n}

\* s.indexOf(pat) + 1, or 0 when pat does not occur in s
IndexOf(s, pat) ==
    LET hits == {i \in 1..(Len(s) + 1) :
                   /\ i + Len(pat) - 1 <= Len(s)
                   /\ SubSeq(s, i, i + Len(pat) - 1) = pat}
    IN IF hits = {} THEN 0 ELSE CHOOSE i \in hits : \A j \in hits : i <= j

\* s.replace(pat, rep) with a string pattern: the first occurrence only
Replace(s, pat, rep) ==
    LET i == IndexOf(s, pat)
    IN IF i = 0 THEN s
       ELSE SubSeq(s, 1, i - 1) \o rep \o SubSeq(s, i + Len(pat), Len(s))

\* s.split('\n')[0]
FirstLine(s) ==
    LET i == IndexOf(s, <<"\n">>)
    IN IF i = 0 THEN s ELSE SubSeq(s, 1, i - 1)

\* s.split('\n') of a non-empty text
RECURSIVE SplitLines(_)
SplitLines(s) ==
    LET i == IndexOf(s, <<"\n">>)
    IN IF i = 0 THEN <<s>>
       ELSE <<SubSeq(s, 1, i - 1)>> \o SplitLines(SubSeq(s, i + 1, Len(s)))

\* lines.join('\n')
RECURSIVE Join(_)
Join(lines) ==
    IF lines = <<>> THEN <<>>
    ELSE IF Len(lines) = 1 THEN lines[1]
    ELSE lines[1] \o <<"\n">> \o Join(Tail(lines))

\* arr.slice(0, n)
Slice(arr, n) == SubSeq(arr, 1, IF Len(arr) < n THEN Len(arr) ELSE n)

\* the concatenation of a sequence of sequences
RECURSIVE Flatten(_)
Flatten(seqs) ==
    IF seqs = <<>> THEN <<>> ELSE Head(seqs) \o Flatten(Tail(seqs))

\* [...new Set(arr)] : insertion order, first occurrences kept
RECURSIVE Dedup(_)
Dedup(arr) ==
    IF arr = <<>> THEN <<>>
    ELSE LET front == Dedup(SubSeq(arr, 1, Len(arr) - 1))
             last == arr[Len(arr)]
         IN IF \E i \in 1..Len(front) : front[i] = last
            THEN front ELSE Append(front, last)


-----------------------------------------------------------------------------
(* Push payloads: the subset of GitHub's push event that the code reads *)

NoList == [t |-> "undefined", a |-> <<>>]
List(a) == [t |-> "array", a |-> a]
NumList == [t |-> "number", a |-> <<>>]

Commit(m, ad, mo, re) ==
    [t |-> "object", message |-> m, added |-> ad, modified |-> mo, removed |-> re]
NullCommit ==
    [t |-> "null", message |-> Undef, added |-> NoList, modified |-> NoList,
     removed |-> NoList]
NumCommit ==
    [t |-> "number", message |-> Undef, added |-> NoList, modified |-> NoList,
     removed |-> NoList]

NoPusher == [t |-> "undefined", name |-> Undef]
Pusher(n) == [t |-> "object", name |-> n]

NoRepository == [t |-> "undefined", full_name |-> Undef, name |-> Undef]
Repository(f, n) == [t |-> "object", full_name |-> f, name |-> n]

Payload(pu, rf, rp, cs) ==
    [t |-> "object", pusher |-> pu, ref |-> rf, repository |-> rp, commits |-> cs]
EmptyPayload == Payload(NoPusher, Undef, NoRepository, NoList)
NullPayload == [EmptyPayload EXCEPT !.t = "null"]
UndefPayload == [EmptyPayload EXCEPT !.t = "undefined"]

-----------------------------------------------------------------------------
(* handlePushEvent *)

RefPrefix == <<"refs/heads/">>
Bullet == <<"  - ">>
NoneLine == Bullet \o <<"None">>
Timestamp == <<"YYYY-MM-DD HH:MM:SS", " UTC">>

\* line 30: payload.pusher || { name: 'Unknown' }, then pusher.name (line 78)
PusherName(p) ==
    IF p.pusher.t = "object" THEN p.pusher.name ELSE Str(<<"Unknown">>)

\* line 31: payload.ref || 'refs/heads/unknown'
RefOf(p) == OrElse(p.ref, Str(RefPrefix \o <<"unknown">>))

\* line 36: ref.replace('refs/heads/', '') || 'unknown'
BranchOf(ref) ==
    LET b == Replace(ref, RefPrefix, <<>>)
    IN IF b = <<>> THEN <<"unknown">> ELSE b

\* lines 32 and 39
repoFullName(p) ==
    IF p.repository.t = "object"
    THEN OrElse(p.repository.full_name,
                OrElse(p.repository.name, Str(<<"unknown/unknown-repo">>)))
    ELSE Str(<<"unknown/unknown-repo">>)

\* line 33: Array.isArray(payload.commits) ? payload.commits : []
CommitsOf(p) == IF p.commits.t = "array" THEN p.commits.a ELSE <<>>

\* line 40
topCommitMessage(commits) ==
    IF commits # <<>> /\ commits[1].t # "null" /\ Truthy(commits[1].message)
    THEN FirstLine(commits[1].message.s)
    ELSE <<"No commit message provided">>

\* line 44: one bullet of the commit message list
CommitBullet(commit) ==
    Bullet \o (IF Truthy(commit.message) THEN FirstLine(commit.message.s)
               ELSE <<"No message">>)

\* the commit message list without the slice(0, 2)
commitMessages_all(commits) ==
    LET text == Join([i \in 1..Len(commits) |-> CommitBullet(commits[i])])
    IN IF text = <<>> THEN NoneLine ELSE text

\* lines 43-46: commits.slice(0, 2).map(...).join('\n') || '  - None'
commitMessages(commits) ==
    LET top == Slice(commits, 2)
        text == Join([i \in 1..Len(top) |-> CommitBullet(top[i])])
    IN IF text = <<>> THEN NoneLine ELSE text

\* lines 52-56: what one commit pushes onto a file list
Pushed(list) == IF list.t = "array" THEN list.a ELSE <<>>

\* truncating before removing the duplicates
DedupLimit_sliceFirst(files) == Dedup(Slice(files, 3))

\* line 58 (59, 60): [...new Set(files)].slice(0, 3)
DedupLimit(files) == Slice(Dedup(files), 3)

\* line 63: formatFileList
formatFileList(files) ==
    IF files # <<>> THEN Join([i \in 1..Len(files) |-> Bullet \o <<files[i]>>])
    ELSE NoneLine

addedFiles(commits) ==
    DedupLimit(Flatten([i \in 1..Len(commits) |-> Pushed(commits[i].added)]))
modifiedFiles(commits) ==
    DedupLimit(Flatten([i \in 1..Len(commits) |-> Pushed(commits[i].modified)]))
removedFiles(commits) ==
    DedupLimit(Flatten([i \in 1..Len(commits) |-> Pushed(commits[i].removed)]))

\* A TypeError is raised inside the try block (lines 29-89)
Throws(p) ==
    LET commits == CommitsOf(p)
    IN \/ p.t # "object"                                    \* line 30
       \/ RefOf(p).t # "string"                              \* line 36
       \/ /\ commits # <<>>                                  \* line 40
          /\ commits[1].t # "null"
          /\ Truthy(commits[1].message)
          /\ commits[1].message.t # "string"
       \/ \E i \in 1..Len(Slice(commits, 2)) :               \* lines 43-44
             \/ commits[i].t = "null"
             \/ Truthy(commits[i].message) /\ commits[i].message.t # "string"
       \/ \E i \in 1..Len(commits) :                         \* lines 52-56
             \/ commits[i].t = "null"
             \/ commits[i].added.t = "number"
             \/ commits[i].modified.t = "number"
             \/ commits[i].removed.t = "number"

\* lines 73-89: the template message, section by section
PushMessage(p) ==
    LET commits == CommitsOf(p)
    IN [kind |-> "push",
        pusher |-> ToText(PusherName(p)),
        repository |-> ToText(repoFullName(p)),
        branch |-> BranchOf(RefOf(p).s),
        commitCount |-> Len(commits),
        noCommitsFound |-> (Len(commits) = 0),
        commitMessages |-> commitMessages(commits),
        topCommit |-> topCommitMessage(commits),
        added |-> formatFileList(addedFiles(commits)),
        modified |-> formatFileList(modifiedFiles(commits)),
        removed |-> formatFileList(removedFiles(commits)),
        timestamp |-> Timestamp]

\* lines 90-94: the catch block
FallbackMessage == [kind |-> "failed", timestamp |-> Timestamp]

\* what leaves a function whose exception is not caught
Thrown == [kind |-> "throw"]

\* handlePushEvent without its try/catch
handlePushEvent_uncaught(p) == IF Throws(p) THEN Thrown ELSE PushMessage(p)

handlePushEvent(p) == IF Throws(p) THEN FallbackMessage ELSE PushMessage(p)

-----------------------------------------------------------------------------
(* The payloads handlePushEvent is applied to *)

RefChunks == {"refs/heads/", "refs/tags/", "main"}
Refs == {Undef, Null, Num} \cup {Str(s) : s \in StringsUpTo(RefChunks, MaxRefLen)}

Pushers == {NoPusher, Pusher(Undef), Pusher(Str(<<>>)), Pusher(Str(<<"alice">>))}

Repositories ==
    {NoRepository, Repository(Undef, Undef),
     Repository(Str(<<"org/repo">>), Str(<<"repo">>)),
     Repository(Undef, Str(<<"repo">>))}

Messages == {Undef, Str(<<>>), Str(<<"a", "\n", "b">>), Str(<<"c">>)}

\* what one commit changes: << added, modified, removed >>
Changes ==
    {<<List(<<"x", "x", "y">>), NoList, NoList>>,
     <<List(<<"y", "z", "w">>), List(<<"x", "x", "y">>), NoList>>,
     <<List(<<>>), List(<<"y", "z", "w">>), List(<<"x", "x", "y">>)>>,
     <<NoList, List(<<>>), List(<<"y", "z", "w">>)>>}

\* commits as the data model describes them: every field absent or of its type
GoodCommits ==
    {Commit(m, NoList, NoList, NoList) : m \in Messages}
    \cup {Commit(Str(<<"c">>), ch[1], ch[2], ch[3]) : ch \in Changes}

\* commits that are not objects, or whose fields have the wrong type
BadCommits ==
    {NullCommit, NumCommit, Commit(Num, NoList, NoList, NoList),
     Commit(Undef, NoList, NumList, NoList)}

CommitLists == {List(cs) : cs \in StringsUpTo(GoodCommits \cup BadCommits, MaxCommits)}

\* payloads that vary the header fields, and payloads that vary the commits
FormatPayloads ==
    {NullPayload, UndefPayload}
    \cup {Payload(pu, rf, rp, cs) : pu \in Pushers, rf \in Refs, rp \in Repositories,
                                    cs \in {NoList, NumList, List(<<>>)}}
    \cup {Payload(NoPusher, Str(<<"refs/heads/", "main">>), NoRepository, cs) :
             cs \in CommitLists}

GoodList(l) == l.t \in {"undefined", "array"}
GoodText(v) == v.t \in {"undefined", "string"}
GoodCommit(c) ==
    /\ c.t = "object"
    /\ GoodText(c.message)
    /\ GoodList(c.added) /\ GoodList(c.modified) /\ GoodList(c.removed)

\* PushPayload of the data model: all fields optional, none of a wrong type
WellFormed(p) ==
    /\ p.t = "object"
    /\ GoodText(p.ref)
    /\ GoodText(p.pusher.name)
    /\ GoodText(p.repository.full_name) /\ GoodText(p.repository.name)
    /\ GoodList(p.commits)
    /\ \A i \in 1..Len(p.commits.a) : GoodCommit(p.commits.a[i])

-----------------------------------------------------------------------------
(* Values of the variables an operation does not use *)

NoMessage == [kind |-> "none"]

\* new Response(body, { status })
Response(body, code) == [status |-> code, body |-> body]
NoResponse == Response("", 0)

-----------------------------------------------------------------------------
(* SpecFormat: handlePushEvent applied to a payload *)

InitFormat ==
    /\ payload \in FormatPayloads
    /\ pc = "format"
    /\ secret = Undef /\ signature = Undef /\ event = Undef /\ rawBody = <<>>
    /\ message = NoMessage
    /\ parsed = FALSE /\ handled = FALSE /\ sent = <<>> /\ response = NoResponse
    /\ sendResult = "none"
    /\ escaped = FALSE
    /\ routeResult = "none" /\ svcResult = "none"

\* a caller evaluates handlePushEvent(payload)
Format ==
    /\ pc = "format"
    /\ LET r == handlePushEvent(payload)
       IN /\ escaped' = (r.kind = "throw")
          /\ message' = IF r.kind = "throw" THEN NoMessage ELSE r
    /\ pc' = "formatted"
    /\ UNCHANGED <<secret, signature, event, rawBody, payload, parsed, handled,
                   sent, response, sendResult, routeResult, svcResult>>

NextFormat == Format

SpecFormat == InitFormat /\ [][NextFormat]_vars

-----------------------------------------------------------------------------
(* Request bodies, JSON and HMAC-SHA256 *)

\* A body is text over these chunks; changing one byte changes one chunk
BodyChunks == {"{", "}", "null"}
Bodies == StringsUpTo(BodyChunks, MaxBodyLen)

\* JSON.parse(rawBody): the parsed payload, or a SyntaxError
JSONparse(text) ==
    CASE text = <<"null">> -> [ok |-> TRUE, value |-> NullPayload]
      [] text = <<"{", "}">> -> [ok |-> TRUE, value |-> EmptyPayload]
      [] OTHER -> [ok |-> FALSE, value |-> UndefPayload]

\* JSON.stringify(payload) of undefined, null and {}: undefined or a string
JSONstringify(p) ==
    CASE p.t = "undefined" -> Undef
      [] p.t = "null" -> Str(<<"null">>)
      [] OTHER -> Str(<<"{", "}">>)

Keys == {<<>>, <<"k1">>}
Secrets == {Undef} \cup {Str(k) : k \in Keys}

KeyDigit(k) == IF k = <<>> THEN "0" ELSE "1"
ChunkDigit(c) == CASE c = "{" -> "1" [] c = "}" -> "2" [] OTHER -> "3"

\* hmac.digest('hex'): HMAC-SHA256 as an injective keyed function with a digest
\* of fixed length; the key may be the empty string
HmacHex(key, text) ==
    <<KeyDigit(key)>> \o
    [i \in 1..MaxBodyLen |-> IF i <= Len(text) THEN ChunkDigit(text[i]) ELSE "0"]

\* `sha256=${hex}`
Expected(key, text) == <<"sha256=">> \o HmacHex(key, text)

\* Buffer.from(s).length
RECURSIVE ByteLength(_)
ByteLength(s) ==
    IF s = <<>> THEN 0
    ELSE (IF Head(s) = "sha256=" THEN 7 ELSE 1)
         + ByteLength(Tail(s))

\* header values: absent, empty, the signature of some body under some key, and
\* such a signature lengthened or shortened
Signatures ==
    {Undef, Null, Str(<<>>)}
    \cup {Str(Expected(k, b)) : k \in Keys, b \in Bodies}
    \cup {Str(Expected(k, b) \o <<"0">>) : k \in Keys, b \in Bodies}
    \cup {Str(SubSeq(Expected(k, b), 1, MaxBodyLen + 1)) : k \in Keys, b \in Bodies}

-----------------------------------------------------------------------------
(* verifyWebhook of route.js: "true", "false", or "throw" *)

\* lines 62-74 comparing only the lengths
CompareSignature_lengthOnly(sig, digest) ==
    IF sig.t # "string" THEN "false"
    ELSE IF ByteLength(sig.s) # ByteLength(digest) THEN "false"
    ELSE "true"

\* lines 62-74: Buffer.from(signature) throws a TypeError for null/undefined
CompareSignature(sig, digest) ==
    IF sig.t # "string" THEN "false"                              \* line 73
    ELSE IF ByteLength(sig.s) # ByteLength(digest) THEN "false"   \* line 68
    ELSE IF sig.s = digest THEN "true" ELSE "false"               \* line 71

verifyWebhook(env, text, sig) ==
    IF ~Truthy(env) THEN "false"                                  \* lines 53-56
    ELSE CompareSignature(sig, Expected(env.s, text))

-----------------------------------------------------------------------------
(* verifyWebhook of services/github-webhook: "true", "false", or "throw" *)

\* lines 13-15: something inside the try block throws
ServiceThrows(env, p, sig) ==
    \/ env.t # "string"                       \* createHmac: the key is no string
    \/ JSONstringify(p).t # "string"          \* hmac.update(undefined)
    \/ sig.t # "string"                       \* Buffer.from(null)
    \/ ByteLength(sig.s) # ByteLength(Expected(env.s, JSONstringify(p).s))
                                              \* timingSafeEqual: RangeError

verifyWebhook_service(env, p, sig) ==
    IF ServiceThrows(env, p, sig) THEN "false"                    \* lines 16-19
    ELSE IF sig.s = Expected(env.s, JSONstringify(p).s) THEN "true" ELSE "false"

-----------------------------------------------------------------------------
(* SpecVerify: both verifyWebhook functions applied to a signature *)

VerifyPayloads == {UndefPayload, NullPayload, EmptyPayload}

InitVerify ==
    /\ secret \in Secrets
    /\ rawBody \in Bodies
    /\ signature \in Signatures
    /\ payload \in VerifyPayloads
    /\ pc = "verify"
    /\ event = Undef /\ message = NoMessage
    /\ parsed = FALSE /\ handled = FALSE /\ sent = <<>> /\ response = NoResponse
    /\ sendResult = "none"
    /\ escaped = FALSE
    /\ routeResult = "none" /\ svcResult = "none"

\* a caller evaluates verifyWebhook(rawBody, signature) of route.js
VerifyRoute ==
    /\ pc = "verify"
    /\ LET r == verifyWebhook(secret, rawBody, signature)
       IN /\ routeResult' = r
          /\ escaped' = (r = "throw")
    /\ pc' = "verifyService"
    /\ UNCHANGED <<secret, signature, event, rawBody, payload, message, parsed,
                   handled, sent, response, sendResult, svcResult>>

\* a caller evaluates verifyWebhook(payload, signature) of the service
VerifyService ==
    /\ pc = "verifyService"
    /\ LET r == verifyWebhook_service(secret, payload, signature)
       IN /\ svcResult' = r
          /\ escaped' = (escaped \/ r = "throw")
    /\ pc' = "verified"
    /\ UNCHANGED <<secret, signature, event, rawBody, payload, message, parsed,
                   handled, sent, response, sendResult, routeResult>>

NextVerify == VerifyRoute \/ VerifyService

SpecVerify == InitVerify /\ [][NextVerify]_vars

-----------------------------------------------------------------------------
(* POST of route.js *)

Events == {Null, Str(<<"push">>), Str(<<"ping">>)}

\* what sendPushAlertAction answers: { success: true }, { success: false, error },
\* { success: false }, a rejected promise, or no result object at all
SendResults == {"success", "failure", "failureNoError", "rejected", "undefined"}

\* an exception on its way to the catch block
Raised == Response("(exception)", 0)

\* one stretch of the try block: what was reached, and how the stretch ended
\* ("respond": a Response is returned, "throw", "await": the delivery is awaited)
Stretch(v, pa, ha, p, m, out, resp) ==
    [verify |-> v, parsed |-> pa, handled |-> ha, payload |-> p, message |-> m,
     out |-> out, response |-> resp]

\* lines 83-96 with JSON.parse moved before the signature check
PostAfterText_parseFirst(env, sig, ev, text) ==
    LET v == IF Truthy(sig) THEN verifyWebhook(env, text, sig) ELSE "none"
        j == JSONparse(text)
        m == handlePushEvent(j.value)
    IN IF ~j.ok
       THEN Stretch("none", TRUE, FALSE, UndefPayload, NoMessage, "throw", Raised)
       ELSE IF v # "true"
       THEN Stretch(v, TRUE, FALSE, j.value, NoMessage, "respond",
                    Response("Invalid signature", 401))
       ELSE IF ev # Str(<<"push">>)
       THEN Stretch(v, TRUE, FALSE, j.value, NoMessage, "respond",
                    Response("Ignored event", 200))
       ELSE Stretch(v, TRUE, TRUE, j.value, m, "await", NoResponse)

\* lines 83-96: from the body text to the call of sendPushAlertAction
PostAfterText(env, sig, ev, text) ==
    LET v == IF Truthy(sig) THEN verifyWebhook(env, text, sig) ELSE "none"
        j == JSONparse(text)
        m == handlePushEvent(j.value)
    IN IF v = "throw"                                              \* line 83
       THEN Stretch(v, FALSE, FALSE, UndefPayload, NoMessage, "throw", Raised)
       ELSE IF v # "true"                                          \* lines 83-85
       THEN Stretch(v, FALSE, FALSE, UndefPayload, NoMessage, "respond",
                    Response("Invalid signature", 401))
       ELSE IF ~j.ok                                               \* line 87
       THEN Stretch(v, TRUE, FALSE, UndefPayload, NoMessage, "throw", Raised)
       ELSE IF ev # Str(<<"push">>)                                \* lines 90-92
       THEN Stretch(v, TRUE, FALSE, j.value, NoMessage, "respond",
                    Response("Ignored event", 200))
       ELSE IF m.kind = "throw"                                    \* line 95
       THEN Stretch(v, TRUE, TRUE, j.value, NoMessage, "throw", Raised)
       ELSE Stretch(v, TRUE, TRUE, j.value, m, "await", NoResponse) \* line 96

\* lines 96-102 answering 200 whatever the result says
PostAfterSend_ignoreResult(res) ==
    IF res \in {"rejected", "undefined"} THEN Raised ELSE Response("OK", 200)

\* lines 96-102: from the answer of sendPushAlertAction to the Response
PostAfterSend(res) ==
    IF res \in {"rejected", "undefined"} THEN Raised       \* lines 96, 98
    ELSE IF res # "success" THEN Raised                    \* lines 98-100
    ELSE Response("OK", 200)                               \* line 102

\* lines 103-106: the catch block
Catch(r) == IF r = Raised THEN Response("Internal Server Error", 500) ELSE r

Init ==
    /\ secret \in Secrets
    /\ pc = "idle"
    /\ signature = Undef /\ event = Undef /\ rawBody = <<>>
    /\ payload = UndefPayload /\ message = NoMessage
    /\ parsed = FALSE /\ handled = FALSE /\ sent = <<>> /\ response = NoResponse
    /\ sendResult = "none"
    /\ escaped = FALSE
    /\ routeResult = "none" /\ svcResult = "none"

\* lines 77-80: POST is called with a request and awaits req.text()
PostStart ==
    /\ pc = "idle"
    /\ signature' \in {sig \in Signatures : sig.t # "undefined"}
    /\ event' \in Events
    /\ rawBody' \in Bodies
    /\ pc' = "text"
    /\ UNCHANGED <<secret, payload, message, parsed, handled, sent, response,
                   sendResult, escaped, routeResult, svcResult>>

\* lines 83-96 (and 103-106): the body text has arrived
PostResumeText ==
    /\ pc = "text"
    /\ LET st == PostAfterText(secret, signature, event, rawBody)
       IN /\ routeResult' = st.verify
          /\ parsed' = st.parsed
          /\ handled' = st.handled
          /\ payload' = st.payload
          /\ message' = st.message
          /\ sent' = IF st.out = "await" THEN Append(sent, st.message) ELSE sent
          /\ response' = IF st.out = "await" THEN NoResponse ELSE Catch(st.response)
          /\ escaped' = (st.out # "await" /\ Catch(st.response) = Raised)
          /\ pc' = IF st.out = "await" THEN "send" ELSE "done"
    /\ UNCHANGED <<secret, signature, event, rawBody, sendResult, svcResult>>

\* lines 96-106: sendPushAlertAction has answered
PostResumeSend ==
    /\ pc = "send"
    /\ \E res \in SendResults :
          /\ sendResult' = res
          /\ response' = Catch(PostAfterSend(res))
          /\ escaped' = (Catch(PostAfterSend(res)) = Raised)
    /\ pc' = "done"
    /\ UNCHANGED <<secret, signature, event, rawBody, payload, message, parsed,
                   handled, sent, routeResult, svcResult>>

\* the request is over: nothing of it is kept
PostReturn ==
    /\ pc = "done"
    /\ pc' = "idle"
    /\ signature' = Undef /\ event' = Undef /\ rawBody' = <<>>
    /\ payload' = UndefPayload /\ message' = NoMessage
    /\ parsed' = FALSE /\ handled' = FALSE /\ sent' = <<>>
    /\ response' = NoResponse /\ sendResult' = "none"
    /\ escaped' = FALSE /\ routeResult' = "none"
    /\ UNCHANGED <<secret, svcResult>>

Next == PostStart \/ PostResumeText \/ PostResumeSend \/ PostReturn

Spec == Init /\ [][Next]_vars

-----------------------------------------------------------------------------
(* Properties of POST, checked under Spec *)

Push == Str(<<"push">>)

\* C1: a request whose signature header is missing or fails verifyWebhook is
\* answered 401 without reaching JSON.parse, handlePushEvent or the delivery;
\* the delivery is called at most once per request, and only after a verified
\* signature and the event "push"
C1_RejectedBeforeParsing ==
    /\ (pc \in {"send", "done"} /\ (~Truthy(signature) \/ routeResult = "false"))
           => /\ pc = "done"
              /\ response = Response("Invalid signature", 401)
              /\ ~parsed /\ ~handled /\ sent = <<>>
    /\ Len(sent) <= 1
    /\ sent # <<>> => (routeResult = "true" /\ event = Push /\ parsed /\ handled)

\* C1 witness: a push with a parseable body, signed for another body, was
\* answered 401
C1_Witness ==
    /\ pc = "done"
    /\ Truthy(secret) /\ Truthy(signature) /\ routeResult = "false"
    /\ event = Push /\ rawBody = <<"{", "}">>
    /\ ByteLength(signature.s) = ByteLength(Expected(secret.s, rawBody))
    /\ response.status = 401

\* C2: a validly signed request whose event is not "push" is answered
\* 200 'Ignored event' and never reaches the delivery, whatever its body
C2_NonPushIgnored ==
    (pc = "done" /\ routeResult = "true" /\ event # Push)
        => (response = Response("Ignored event", 200) /\ sent = <<>>)

\* C3: a validly signed push with a parseable body always hands the formatted
\* text (the fallback text too) to the delivery; the response is 200 exactly when
\* the delivery answers success:true and 500 otherwise; POST never throws
C3_DeliveryDecidesStatus ==
    /\ ~escaped
    /\ (pc \in {"send", "done"} /\ routeResult = "true" /\ event = Push
        /\ JSONparse(rawBody).ok)
           => /\ sent = <<message>>
              /\ message.kind \in {"push", "failed"}
              /\ (rawBody = <<"null">>) => message.kind = "failed"
              /\ pc = "done" =>
                    /\ (response.status = 200) <=> (sendResult = "success")
                    /\ (response.status = 500) <=> (sendResult # "success")

\* C3 witness: the fallback text was handed over and the delivery failed
C3_Witness ==
    /\ pc = "done"
    /\ rawBody = <<"null">>
    /\ sent = <<[kind |-> "failed", timestamp |-> Timestamp]>>
    /\ sendResult = "failure"
    /\ response.status = 500

-----------------------------------------------------------------------------
(* Properties of the two verifyWebhook functions, checked under SpecVerify *)

\* byte length of 'sha256=<hex>'
ExpectedLength == 7 + 1 + MaxBodyLen

\* C4: both verifyWebhook functions return false and never throw when the
\* secret is unset or empty, the header is missing, or the header's length
\* differs from the length of 'sha256=<hex>'
C4_InvalidIsFalse ==
    (/\ pc = "verified"
     /\ \/ secret.t = "undefined"
        \/ secret = Str(<<>>)
        \/ signature.t \in {"undefined", "null"}
        \/ ByteLength(signature.s) # ExpectedLength)
    => (routeResult = "false" /\ svcResult = "false" /\ ~escaped)

\* text b differs from text a in exactly one position
OneByteChanged(a, b) ==
    /\ Len(a) = Len(b)
    /\ Cardinality({i \in 1..Len(a) : a[i] # b[i]}) = 1

\* C5: with a non-empty secret, verifyWebhook of route.js returns true exactly
\* when the header is "sha256=" followed by the hex HMAC of the raw body; it is
\* false for the signature of a body that differs from the raw body in one byte
C5_TrueIffSignatureOfBody ==
    (pc # "verify" /\ Truthy(secret)) =>
        /\ (routeResult = "true") <=>
              (/\ signature.t = "string"
               /\ signature.s = <<"sha256=">> \o HmacHex(secret.s, rawBody))
        /\ \A b \in Bodies :
              (OneByteChanged(b, rawBody) /\ signature = Str(Expected(secret.s, b)))
                  => routeResult = "false"

\* C5 witness: the signature of a body one byte away from the raw body was refused
C5_Witness ==
    /\ pc = "verified" /\ Truthy(secret)
    /\ \E b \in Bodies :
          OneByteChanged(b, rawBody) /\ signature = Str(Expected(secret.s, b))
    /\ routeResult = "false"

-----------------------------------------------------------------------------
(* Properties of handlePushEvent, checked under SpecFormat *)

Formatted == pc = "formatted"
Min(a, b) == IF a < b THEN a ELSE b
Range(f) == {f[i] : i \in DOMAIN f}

\* C6: handlePushEvent never throws and returns a text for every input: the
\* template message, or the 'Push processing failed' message with a timestamp
C6_FormatNeverThrows ==
    Formatted =>
        /\ ~escaped
        /\ message.kind \in {"push", "failed"}
        /\ message.timestamp = Timestamp

\* C6 witness: a commits array holding null was formatted into the fallback text
C6_Witness ==
    /\ Formatted
    /\ payload.t = "object"
    /\ \E i \in 1..Len(payload.commits.a) : payload.commits.a[i].t = "null"
    /\ message.kind = "failed"

\* C7: when the pusher's name is absent (no pusher, or a pusher without a name)
\* the message shows "Unknown" as the pusher
C7_PusherDefault ==
    (/\ Formatted
     /\ message.kind = "push"
     /\ \/ payload.pusher.t = "undefined"
        \/ payload.pusher.name.t = "undefined")
    => message.pusher = <<"Unknown">>

\* the i-th commit message bullet as the claim C8 states it
FirstLineOf(text) ==
    IF \E k \in 1..Len(text) : text[k] = "\n"
    THEN SubSeq(text, 1, (CHOOSE k \in 1..Len(text) :
                            /\ text[k] = "\n"
                            /\ \A j \in 1..(k - 1) : text[j] # "\n") - 1)
    ELSE text

RECURSIVE Listed(_, _)
Listed(cs, f) ==
    IF cs = <<>> THEN <<>>
    ELSE (IF cs[1][f].t = "array" THEN cs[1][f].a ELSE <<>>) \o Listed(Tail(cs), f)

\* q holds the first min(3, number of distinct paths) distinct paths of all,
\* in the order of their first occurrences
FirstThreeDistinct(q, all) ==
    /\ Len(q) = Min(3, Cardinality(Range(all)))
    /\ \A j \in 1..Len(q) :
          LET before == {q[i] : i \in 1..(j - 1)}
          IN /\ q[j] \notin before
             /\ \E k \in 1..Len(all) :
                   /\ all[k] = q[j]
                   /\ \A m \in 1..(k - 1) : all[m] \in before

\* C9: each file section shows the field concatenated over all commits, without
\* duplicates (first occurrences kept), truncated to 3; "  - None" exactly when
\* no commit lists a path
C9_FileSections ==
    (Formatted /\ WellFormed(payload)) =>
        /\ message.kind = "push"
        /\ \A f \in {"added", "modified", "removed"} :
              LET all == Listed(payload.commits.a, f)
                  lines == SplitLines(message[f])
              IN /\ (message[f] = <<"  - ", "None">>) <=> (all = <<>>)
                 /\ all # <<>> =>
                      /\ \A i \in 1..Len(lines) :
                            Len(lines[i]) = 2 /\ lines[i][1] = "  - "
                      /\ FirstThreeDistinct([i \in 1..Len(lines) |-> lines[i][2]], all)

\* C9 witness: paths of a third commit are shown, duplicates are dropped and a
\* fourth distinct path is cut off
C9_Witness ==
    /\ Formatted /\ WellFormed(payload)
    /\ Len(payload.commits.a) = 3
    /\ Listed(payload.commits.a, "added") = <<"x", "x", "y", "y", "z", "w">>
    /\ payload.commits.a[3].added = List(<<"y", "z", "w">>)
    /\ payload.commits.a[2].added = NoList
    /\ message.added = <<"  - ", "x", "\n", "  - ", "y", "\n", "  - ", "z">>
    /\ message.modified = <<"  - ", "x", "\n", "  - ", "y">>
    /\ message.removed = <<"  - ", "None">>

\* C10: the branch is ref without a leading "refs/heads/" and otherwise unchanged;
\* "unknown" for an absent ref and for exactly "refs/heads/"
C10_BranchIsPrefixStripped ==
    (Formatted /\ payload.t = "object" /\ message.kind = "push") =>
        LET ref == payload.ref.s
        IN /\ payload.ref.t = "undefined" => message.branch = <<"unknown">>
           /\ (payload.ref.t = "string" /\ ref # <<>>) =>
                IF ref[1] = "refs/heads/"
                THEN message.branch =
                        (IF Len(ref) = 1 THEN <<"unknown">> ELSE Tail(ref))
                ELSE message.branch = ref

=============================================================================
